---- MODULE Spec2Model ----
(***************************************************************************)
(* day2.py: count the records of a file that are "safe" (all steps between *)
(* adjacent levels in 1..3 and of one sign), without and with the removal  *)
(* of a single level.                                                      *)
(*                                                                         *)
(* The script is modelled at the grain of its source lines.  A call of     *)
(* is_safe is a frame whose field "line" is the number of the source line  *)
(* about to run; the generators deltas and dampened are objects carrying   *)
(* their cursor and locals, advanced one __next__ at a time.               *)
(***************************************************************************)
EXTENDS Integers, Sequences, FiniteSets, TLC

VARIABLES
  records,   \* the list built at lines 4-5, one list of ints per line of the file
  pc,        \* the module-level statement running: 36, 37, or 38 past the last one
  r,         \* how many records the generator expression inside sum() has consumed
  total,     \* the running total inside sum()
  stdout,    \* the numbers printed so far
  damp,      \* the frame of is_safe_with_dampening, or NoFrame
  safe,      \* the frame of is_safe, or NoFrame
  yielded    \* the values the deltas generator of the current is_safe call has yielded

vars == <<records, pc, r, total, stdout, damp, safe, yielded>>

----------------------------------------------------------------------------
(* Bounds of the input space. *)

MaxLevel == 4      \* levels of the enumerated records are 0..MaxLevel
MaxLen == 4        \* length of the enumerated records
MaxRecords == 2    \* records in the enumerated multi-line files

Levels == 0..MaxLevel

BoundedRecords == UNION {[1..n -> Levels] : n \in 0..MaxLen}

(* The six records of the puzzle's example, in file order. *)
ExampleFile ==
  << <<7, 6, 4, 2, 1>>, <<1, 2, 7, 8, 9>>, <<9, 7, 6, 2, 1>>,
     <<1, 3, 2, 4, 5>>, <<8, 6, 4, 4, 1>>, <<1, 3, 6, 7, 9>> >>

ExampleRecords == {ExampleFile[n] : n \in 1..Len(ExampleFile)}

(* A blank line of the file parses to the empty record. *)
BlankLine == <<>>

(* Files: every one-line file over the enumerated and the example records, *)
(* every file of up to MaxRecords lines drawn from the example records and *)
(* the blank line, and the example file itself.                            *)
Files ==
  {<<rec>> : rec \in BoundedRecords \cup ExampleRecords}
    \cup UNION {[1..n -> ExampleRecords \cup {BlankLine}] : n \in 0..MaxRecords}
    \cup {ExampleFile}

----------------------------------------------------------------------------
(* Python builtins used by the script. *)

abs(x) == IF x < 0 THEN -x ELSE x

(* iter(levels): a list iterator, cursor i at the next position (0-based). *)
iter(lv) == [kind |-> "iter", levels |-> lv, i |-> 0]

(* list_iterator.__next__ *)
IterNext(it) ==
  IF it.i < Len(it.levels)
    THEN [stop |-> FALSE, item |-> it.levels[it.i + 1], it |-> [it EXCEPT !.i = @ + 1]]
    ELSE [stop |-> TRUE, item |-> 0, it |-> it]

----------------------------------------------------------------------------
(* dampened(levels, index): the generator expression                       *)
(*   (levels[i] for i in range(len(levels)) if i != index)                 *)
(* with i the next value range() will produce.                             *)

dampened(lv, index) == [kind |-> "dampened", levels |-> lv, index |-> index, i |-> 0]

(* The generator expression with its filter left out. *)
DampenedNextNoFilter(it) ==
  IF it.i < Len(it.levels)
    THEN [stop |-> FALSE, item |-> it.levels[it.i + 1], it |-> [it EXCEPT !.i = @ + 1]]
    ELSE [stop |-> TRUE, item |-> 0, it |-> it]

(* One __next__ of the generator expression: take values of i from the     *)
(* range, skipping the one equal to index, until one passes the filter or  *)
(* the range is exhausted.                                                 *)
DampenedNext(it) ==
  LET j == IF it.i = it.index THEN it.i + 1 ELSE it.i
  IN  IF j < Len(it.levels)
        THEN [stop |-> FALSE, item |-> it.levels[j + 1], it |-> [it EXCEPT !.i = j + 1]]
        ELSE [stop |-> TRUE, item |-> 0, it |-> [it EXCEPT !.i = Len(it.levels)]]

(* next(levels) on whichever iterator deltas was given. *)
SrcNext(it) == IF it.kind = "iter" THEN IterNext(it) ELSE DampenedNext(it)

----------------------------------------------------------------------------
(* deltas(levels): a generator object.  state is "created" before the      *)
(* first __next__, "suspended" at the yield of line 13, "closed" after it  *)
(* returned.  prev and item are its locals (0 until first assigned).       *)

deltas(it) == [state |-> "created", levels |-> it, prev |-> 0, item |-> 0]

(* Lines 12-13: the for loop takes the next item and yields item - prev,   *)
(* or ends the generator when the iterator is exhausted.                   *)
DeltasLoop(g, it, prev) ==
  LET n == SrcNext(it)
  IN  IF n.stop
        THEN [outcome |-> "stop", value |-> 0,
              g |-> [g EXCEPT !.state = "closed", !.levels = n.it, !.prev = prev]]
        ELSE [outcome |-> "yield", value |-> n.item - prev,
              g |-> [state |-> "suspended", levels |-> n.it, prev |-> prev, item |-> n.item]]

(* Lines 8-11 without the try/except: the StopIteration of next(levels)   *)
(* escapes the generator body.                                             *)
DeltasStartNoCatch(g) ==
  LET n == SrcNext(g.levels)
  IN  IF n.stop
        THEN [outcome |-> "raise", value |-> 0,
              g |-> [g EXCEPT !.state = "closed", !.levels = n.it]]
        ELSE DeltasLoop(g, n.it, n.item)

(* Lines 8-11: the first item, with StopIteration caught. *)
DeltasStart(g) ==
  LET n == SrcNext(g.levels)
  IN  IF n.stop
        THEN [outcome |-> "stop", value |-> 0,
              g |-> [g EXCEPT !.state = "closed", !.levels = n.it]]
        ELSE DeltasLoop(g, n.it, n.item)

(* One __next__ of the generator: outcome "yield" with a value, "stop"     *)
(* (StopIteration to the consumer's for loop), or "raise" for an exception *)
(* escaping the generator body.                                            *)
DeltasNext(g) ==
  CASE g.state = "created"   -> DeltasStart(g)
    [] g.state = "suspended" -> DeltasLoop(g, g.levels, g.item)   \* line 14, then 12-13
    [] g.state = "closed"    -> [outcome |-> "stop", value |-> 0, g |-> g]

----------------------------------------------------------------------------
(* is_safe(deltas): one frame per call.                                    *)

NoFrame == [status |-> "none"]

is_safe_call(g) ==
  [status |-> "running", line |-> 17, deltas |-> g,
   sgn |-> 0, delta |-> 0, absDelta |-> 0, newSgn |-> 0, ret |-> FALSE]

(* Line 18: the for loop asks the generator for the next delta. *)
ForDelta(f) ==
  LET n == DeltasNext(f.deltas)
  IN  CASE n.outcome = "yield" -> [f EXCEPT !.deltas = n.g, !.delta = n.value, !.line = 19]
        [] n.outcome = "stop"  -> [f EXCEPT !.deltas = n.g, !.line = 26]
        [] n.outcome = "raise" -> [f EXCEPT !.deltas = n.g, !.status = "raised"]

(* Line 20 testing delta where absDelta is meant. *)
StepOutOfBoundsNoAbs(f) == f.delta < 1 \/ f.delta > 3

(* Line 20 with the lower bound left out. *)
StepOutOfBoundsNoLower(f) == f.absDelta > 3

(* Line 20 with the upper bound off by one. *)
StepOutOfBoundsUpTo4(f) == f.absDelta < 1 \/ f.absDelta > 4

(* Line 20: the bounded-step test. *)
StepOutOfBounds(f) == f.absDelta < 1 \/ f.absDelta > 3

(* Line 22 *)
SignOf(delta) == IF delta > 0 THEN 1 ELSE -1

(* Line 23 with the comparison inverted. *)
SignFlippedInverted(f) == f.sgn # 0 /\ f.newSgn = f.sgn

(* Line 23 without the guard for the undetermined sign. *)
SignFlippedNoGuard(f) == f.newSgn # f.sgn

(* Line 23: the sign test. *)
SignFlipped(f) == f.sgn # 0 /\ f.newSgn # f.sgn

(* The statement at f.line runs. *)
is_safe_step(f) ==
  CASE f.line = 17 -> [f EXCEPT !.sgn = 0, !.line = 18]
    [] f.line = 18 -> ForDelta(f)
    [] f.line = 19 -> [f EXCEPT !.absDelta = abs(f.delta), !.line = 20]
    [] f.line = 20 -> [f EXCEPT !.line = IF StepOutOfBounds(f) THEN 21 ELSE 22]
    [] f.line = 21 -> [f EXCEPT !.status = "returned", !.ret = FALSE]
    [] f.line = 22 -> [f EXCEPT !.newSgn = SignOf(f.delta), !.line = 23]
    [] f.line = 23 -> [f EXCEPT !.line = IF SignFlipped(f) THEN 24 ELSE 25]
    [] f.line = 24 -> [f EXCEPT !.status = "returned", !.ret = FALSE]
    [] f.line = 25 -> [f EXCEPT !.sgn = f.newSgn, !.line = 18]
    [] f.line = 26 -> [f EXCEPT !.status = "returned", !.ret = TRUE]

(* The call run to its end. *)
RECURSIVE is_safe_run(_)
is_safe_run(f) == IF f.status = "running" THEN is_safe_run(is_safe_step(f)) ELSE f

(* The value of is_safe(g) (FALSE when the call raised). *)
is_safe(g) ==
  LET f == is_safe_run(is_safe_call(g))
  IN  f.status = "returned" /\ f.ret

----------------------------------------------------------------------------
(* The module level: lines 4-5, 36, 37. *)

Init ==
  /\ records \in Files
  /\ pc = 36
  /\ r = 0
  /\ total = 0
  /\ stdout = <<>>
  /\ damp = NoFrame
  /\ safe = NoFrame
  /\ yielded = <<>>

(* Any step of a running is_safe frame, whoever called it. *)
IsSafeStep ==
  /\ safe.status = "running"
  /\ safe' = is_safe_step(safe)
  /\ yielded' = IF safe.line = 18 /\ safe'.status = "running" /\ safe'.line = 19
                  THEN Append(yielded, safe'.delta)
                  ELSE yielded
  /\ UNCHANGED <<records, pc, r, total, stdout, damp>>

(* Line 36: the next record is tested with is_safe(deltas(iter(record))). *)
Line36Call ==
  /\ pc = 36
  /\ safe.status = "none"
  /\ r < Len(records)
  /\ safe' = is_safe_call(deltas(iter(records[r + 1])))
  /\ yielded' = <<>>
  /\ UNCHANGED <<records, pc, r, total, stdout, damp>>

(* Line 36: is_safe returned; the record counts 1 if it is safe. *)
Line36Return ==
  /\ pc = 36
  /\ safe.status = "returned"
  /\ total' = IF safe.ret THEN total + 1 ELSE total
  /\ r' = r + 1
  /\ safe' = NoFrame
  /\ UNCHANGED <<records, pc, stdout, damp, yielded>>

(* Line 36: the records are exhausted; the sum is printed. *)
Line36Print ==
  /\ pc = 36
  /\ safe.status = "none"
  /\ r = Len(records)
  /\ stdout' = Append(stdout, total)
  /\ total' = 0
  /\ r' = 0
  /\ pc' = 37
  /\ UNCHANGED <<records, damp, safe, yielded>>

(* Line 37: the next record is tested with is_safe_with_dampening(record). *)
Line37Call ==
  /\ pc = 37
  /\ damp.status = "none"
  /\ r < Len(records)
  /\ damp' = [status |-> "running", line |-> 32, levels |-> records[r + 1],
              i |-> 0, ret |-> FALSE]
  /\ UNCHANGED <<records, pc, r, total, stdout, safe, yielded>>

(* Line 32: is_safe(deltas(iter(levels))) is called. *)
Line32Call ==
  /\ damp.status = "running"
  /\ damp.line = 32
  /\ safe.status = "none"
  /\ safe' = is_safe_call(deltas(iter(damp.levels)))
  /\ yielded' = <<>>
  /\ UNCHANGED <<records, pc, r, total, stdout, damp>>

(* Line 32 with the condition inverted. *)
Line32ReturnInverted ==
  /\ damp.status = "running"
  /\ damp.line = 32
  /\ safe.status = "returned"
  /\ damp' = [damp EXCEPT !.line = IF safe.ret THEN 34 ELSE 33]
  /\ safe' = NoFrame
  /\ UNCHANGED <<records, pc, r, total, stdout, yielded>>

(* Line 32: the call returned; the if goes to line 33 or to line 34. *)
Line32Return ==
  /\ damp.status = "running"
  /\ damp.line = 32
  /\ safe.status = "returned"
  /\ damp' = [damp EXCEPT !.line = IF safe.ret THEN 33 ELSE 34]
  /\ safe' = NoFrame
  /\ UNCHANGED <<records, pc, r, total, stdout, yielded>>

(* Line 33: return True. *)
Line33 ==
  /\ damp.status = "running"
  /\ damp.line = 33
  /\ damp' = [damp EXCEPT !.status = "returned", !.ret = TRUE]
  /\ UNCHANGED <<records, pc, r, total, stdout, safe, yielded>>

(* range(len(levels)) stopping one short. *)
InRangeOneShort(d) == d.i < Len(d.levels) - 1

(* Line 34: whether range(len(levels)) has a next i. *)
InRange(d) == d.i < Len(d.levels)

(* Line 34: any() takes the next i of range(len(levels)) and calls         *)
(* is_safe(deltas(dampened(levels, i))).                                   *)
Line34Call ==
  /\ damp.status = "running"
  /\ damp.line = 34
  /\ safe.status = "none"
  /\ InRange(damp)
  /\ safe' = is_safe_call(deltas(dampened(damp.levels, damp.i)))
  /\ yielded' = <<>>
  /\ UNCHANGED <<records, pc, r, total, stdout, damp>>

(* Line 34: a trial returned; any() returns True on a true one, and goes   *)
(* on to the next i otherwise.                                             *)
Line34Return ==
  /\ damp.status = "running"
  /\ damp.line = 34
  /\ safe.status = "returned"
  /\ damp' = IF safe.ret
               THEN [damp EXCEPT !.status = "returned", !.ret = TRUE]
               ELSE [damp EXCEPT !.i = @ + 1]
  /\ safe' = NoFrame
  /\ UNCHANGED <<records, pc, r, total, stdout, yielded>>

(* Line 34: the range is exhausted; any() returns False. *)
Line34Exhausted ==
  /\ damp.status = "running"
  /\ damp.line = 34
  /\ safe.status = "none"
  /\ ~InRange(damp)
  /\ damp' = [damp EXCEPT !.status = "returned", !.ret = FALSE]
  /\ UNCHANGED <<records, pc, r, total, stdout, safe, yielded>>

(* Line 37: is_safe_with_dampening returned; the record counts 1 if True. *)
Line37Return ==
  /\ pc = 37
  /\ damp.status = "returned"
  /\ total' = IF damp.ret THEN total + 1 ELSE total
  /\ r' = r + 1
  /\ damp' = NoFrame
  /\ UNCHANGED <<records, pc, stdout, safe, yielded>>

(* Line 37: the records are exhausted; the sum is printed and the script   *)
(* ends.                                                                   *)
Line37Print ==
  /\ pc = 37
  /\ damp.status = "none"
  /\ r = Len(records)
  /\ stdout' = Append(stdout, total)
  /\ pc' = 38
  /\ UNCHANGED <<records, r, total, damp, safe, yielded>>

Next ==
  \/ IsSafeStep
  \/ Line36Call
  \/ Line36Return
  \/ Line36Print
  \/ Line37Call
  \/ Line32Call
  \/ Line32Return
  \/ Line33
  \/ Line34Call
  \/ Line34Return
  \/ Line34Exhausted
  \/ Line37Return
  \/ Line37Print

Spec == Init /\ [][Next]_vars

----------------------------------------------------------------------------
(* What the properties speak of. *)

(* The adjacent differences s[k+1] - s[k] of a record. *)
Diffs(s) == [k \in 1..(Len(s) - 1) |-> s[k + 1] - s[k]]

(* Every adjacent difference is in 1..3 in absolute value, and all have    *)
(* the same sign.                                                          *)
Safe(s) ==
  LET d == Diffs(s)
  IN  \/ \A k \in DOMAIN d : d[k] \in 1..3
      \/ \A k \in DOMAIN d : -d[k] \in 1..3

(* The record with the element at 0-based position i removed. *)
Remove(s, i) == [k \in 1..(Len(s) - 1) |-> IF k <= i THEN s[k] ELSE s[k + 1]]

(* The record in reverse order. *)
Reverse(s) == [k \in 1..Len(s) |-> s[Len(s) + 1 - k]]

(* list(g): every value the generator yields until it stops. *)
RECURSIVE list(_)
list(g) ==
  LET n == DeltasNext(g)
  IN  IF n.outcome = "yield" THEN <<n.value>> \o list(n.g) ELSE <<>>

IsPrefix(p, s) == Len(p) <= Len(s) /\ \A k \in 1..Len(p) : p[k] = s[k]

(* An is_safe call is live, on the deltas of the whole record (lines 36    *)
(* and 32) or of a record with one index left out (line 34).               *)
InCall == safe.status # "none"
Scanned == safe.deltas.levels.levels
PlainCall == InCall /\ safe.deltas.levels.kind = "iter"
Trial == InCall /\ safe.deltas.levels.kind = "dampened"

(* How many deltas of the current scan have passed both tests (line 25). *)
Accepted ==
  IF \/ yielded = <<>>
     \/ safe.status = "running" /\ safe.line \in {17, 18, 26}
     \/ safe.status = "returned" /\ safe.ret
    THEN Len(yielded)
    ELSE Len(yielded) - 1

Finished == pc = 38

----------------------------------------------------------------------------
(* C1: when is_safe(deltas(iter(s))) returns, for a record s of any        *)
(* length, its value is True exactly when every adjacent difference of s   *)
(* is in 1..3 in absolute value and all differences have the same sign;    *)
(* the call never raises.                                                  *)
C1_PlainSafeIffBoundedMonotone ==
  PlainCall =>
    /\ safe.status # "raised"
    /\ safe.status = "returned" => (safe.ret <=> Safe(Scanned))

C1_Witness ==
  /\ PlainCall /\ safe.status = "returned" /\ safe.ret
  /\ Len(Scanned) = 4 /\ Scanned[1] > Scanned[2]

(* C2: when is_safe_with_dampening(r) returns, its value is True exactly   *)
(* when r is safe or r with some one element removed is safe, whatever     *)
(* the order the candidates were tried in.                                 *)
C2_DampenedIsDisjunction ==
  damp.status = "returned" =>
    (damp.ret <=>
       \/ Safe(damp.levels)
       \/ \E i \in 0..(Len(damp.levels) - 1) : Safe(Remove(damp.levels, i)))

C2_Witness ==
  /\ damp.status = "returned" /\ damp.ret /\ damp.line = 34
  /\ Len(damp.levels) = 4 /\ damp.i = 3

(* C3: a record for which is_safe(deltas(iter(r))) is True gets True from  *)
(* is_safe_with_dampening, and the second number printed is never smaller  *)
(* than the first.                                                         *)
C3_DampeningNeverUnsafe ==
  /\ damp.status = "returned" /\ is_safe(deltas(iter(damp.levels))) => damp.ret
  /\ Finished => stdout[2] >= stdout[1]

C3_Witness ==
  Finished /\ records = ExampleFile /\ stdout = <<2, 4>>

(* C4: for a record of length 0 or 1 the deltas generator yields nothing   *)
(* and ends without an error, and is_safe on it returns True.              *)
C4_ShortRecordVacuouslySafe ==
  PlainCall /\ Len(Scanned) <= 1 =>
    /\ yielded = <<>>
    /\ list(deltas(iter(Scanned))) = <<>>
    /\ safe.status # "raised"
    /\ safe.status = "running" => safe.line \in {17, 18, 26}
    /\ safe.status = "returned" => safe.ret

C4_Witness ==
  /\ PlainCall /\ Len(Scanned) = 1
  /\ safe.status = "returned" /\ safe.ret /\ safe.deltas.state = "closed"

ExampleCounts ==
  << <<1, 1>>, <<0, 0>>, <<0, 0>>, <<0, 1>>, <<0, 1>>, <<1, 1>> >>

C6_Examples ==
  /\ \A n \in 1..Len(ExampleFile) :
       Finished /\ records = <<ExampleFile[n]>> => stdout = ExampleCounts[n]
  /\ Trial /\ safe.status = "returned" /\ Scanned \in {ExampleFile[2], ExampleFile[3]}
       => ~safe.ret

C6_Witness ==
  Finished /\ records = <<ExampleFile[4]>> /\ stdout = <<0, 1>>

(* C7: is_safe(deltas(iter(s))) has the value of                           *)
(* is_safe(deltas(iter(reverse(s)))); a record increasing by steps of 1..3 *)
(* and its reverse are both safe.                                          *)
C7_ReversalSymmetry ==
  PlainCall /\ safe.status = "returned" =>
    /\ safe.ret <=> is_safe(deltas(iter(Reverse(Scanned))))
    /\ (\A k \in 1..(Len(Scanned) - 1) : Scanned[k + 1] - Scanned[k] \in 1..3)
         => safe.ret /\ is_safe(deltas(iter(Reverse(Scanned))))

C7_Witness ==
  /\ PlainCall /\ safe.status = "returned" /\ safe.ret
  /\ Len(Scanned) = 4 /\ Scanned[1] < Scanned[2]

(* C8: a delta of 0 sends the scan from line 20 to the return False of     *)
(* line 21; lines 22 to 25 never run with delta = 0, so newSgn is -1 only  *)
(* for a negative delta; no delta is taken after a 0.                      *)
C8_ZeroDeltaRejectedFirst ==
  InCall =>
    /\ safe.status = "running" /\ safe.line \in {22, 23, 24, 25} => safe.delta # 0
    /\ safe.status = "running" /\ safe.line \in {23, 24, 25} /\ safe.newSgn = -1
         => safe.delta < 0
    /\ \A k \in 1..Len(yielded) :
         yielded[k] = 0 =>
           /\ k = Len(yielded)
           /\ safe.line \in {19, 20, 21}
           /\ safe.status = "returned" => ~safe.ret

C8_Witness ==
  /\ InCall /\ safe.status = "returned" /\ safe.line = 21 /\ ~safe.ret
  /\ Len(yielded) = 2 /\ yielded[2] = 0

(* C9: sgn is -1, 0 or 1; it is 0 only while no delta has been accepted;   *)
(* once nonzero it has the sign of every accepted delta, so it never       *)
(* changes; a delta of the other sign is the last one taken and the scan   *)
(* returns False.                                                          *)
Sign(d) == IF d > 0 THEN 1 ELSE IF d < 0 THEN -1 ELSE 0

C9_SignInvariant ==
  InCall =>
    /\ safe.sgn \in {-1, 0, 1}
    /\ safe.sgn = 0 => Accepted = 0
    /\ \A k \in 1..Accepted : Sign(yielded[k]) = safe.sgn
    /\ \A k \in 2..Len(yielded) :
         Sign(yielded[k]) # Sign(yielded[1]) =>
           /\ k = Len(yielded)
           /\ safe.line \in {19, 20, 21, 22, 23, 24}
           /\ safe.status = "returned" => ~safe.ret

C9_Witness ==
  /\ InCall /\ safe.status = "returned" /\ safe.line = 24 /\ ~safe.ret
  /\ Len(yielded) = 3 /\ safe.sgn = 1 /\ yielded[3] < 0

(* C10: a record of at most 2 elements gets True from                      *)
(* is_safe_with_dampening whatever its values, and a blank line counts in  *)
(* both printed numbers.                                                   *)
C10_ShortRecordsDampenedSafe ==
  /\ damp.status = "returned" /\ Len(damp.levels) <= 2 => damp.ret
  /\ Finished =>
       /\ stdout[1] >= Cardinality({n \in 1..Len(records) : records[n] = BlankLine})
       /\ stdout[2] >= Cardinality({n \in 1..Len(records) : Len(records[n]) <= 2})

C10_Witness ==
  /\ damp.status = "returned" /\ damp.ret /\ damp.line = 34
  /\ Len(damp.levels) = 2 /\ damp.levels[1] = damp.levels[2]

====
